---- MODULE Spec2Model ----
(***************************************************************************)
(* Annual-report discovery and download pipeline (aspiratio).              *)
(*                                                                         *)
(* SpecFind     : tier1 find_annual_reports, the staged discovery of       *)
(*                report URLs with its bounded-depth crawler and its       *)
(*                consecutive-failure circuit breaker, followed by the     *)
(*                Playwright fallback of redownload_failed.                *)
(* SpecDownload : tier1 download_pdf, the retry loop that fetches one      *)
(*                candidate URL, checks it and moves it to output_path.    *)
(* SpecPipe     : the PDF files under companies/ and the coverage table    *)
(*                as download_company_reports, validate_reports and        *)
(*                redownload_failed (with the Playwright handlers) leave   *)
(*                them, the scripts run one after the other.               *)
(* SpecCoverage : download_reports writing the download summary and        *)
(*                update_coverage_table building the table from it.        *)
(* SpecFindLive : SpecFind with every enabled step eventually taken, for   *)
(*                the termination of find_annual_reports.                  *)
(* SpecValidate : validate_pdf of scripts/validate_reports.py.             *)
(* SpecCategorize : categorize_connection_error applied to an exception.   *)
(* SpecDiagnose : test_url_with_multiple_agents and test_connection of     *)
(*                scripts/diagnose_connections.py.                         *)
(* SpecName     : normalize_name, statement by statement.                  *)
(* SpecCompany  : tier1 download_company_reports, the loop over the years  *)
(*                found and over the candidates of a year.                 *)
(***************************************************************************)
EXTENDS Integers, Sequences, FiniteSets, TLC

(***************************************************************************)
(* Bounds of the model.                                                    *)
(***************************************************************************)
\* longest list of user agents configured for diagnose_connections (the
\* fallback list has three, the default of get_user_agents has one)
MaxAgents == 3
\* longest company name given to normalize_name, in characters
MaxNameLen == 4
\* longest list of reports returned by find_annual_reports
MaxReports == 3
\* largest max_depth argument tried
MaxDepthArg == 1
\* largest max_failures argument tried
MaxFailuresArg == 2
\* number of common-path URLs probed (the code lists 13 paths)
NumCommon == 2
\* longest list of links to follow that one page yields
MaxLinks == 1
\* largest max_retries argument tried (the default is 3)
MaxRetriesArg == 2
\* largest page count of a downloaded PDF; min_pages ranges over 1 .. this
MaxPageCount == 2
\* longest 'downloads' list of a company result in the download summary
MaxDownloads == 1

(***************************************************************************)
(* Program constants.                                                      *)
(***************************************************************************)
\* for next_url in pages_to_visit[:5]
FollowLimit == 5

\* the years a caller asks for, and one year outside the request
TargetYears == {2023, 2024}
YearUniverse == TargetYears \cup {2022}

\* The pages of the site: URL 0 is the ir_url of the running call and
\* 1..NumCommon are the URLs built from common_paths.
IrUrl == 0
Urls == 0 .. NumCommon
CommonPaths == [i \in 1 .. NumCommon |-> i]

\* source_page of the reports found on mfn.se, a page outside the site
MfnSource == -1

\* the stages of find_annual_reports
Stages == {"direct", "crawl", "common", "failsafe", "mfn"}

VARIABLES
    \* ---- find_annual_reports ----
    pc,                    \* position in find_annual_reports
    level,                 \* 0: the caller's call, 1: the failsafe's nested call
    max_depth,
    max_failures,
    enable_failsafe,       \* the caller's argument
    company_name,          \* TRUE when a company name was passed
    years,                 \* years still looked for (the years list)
    results,               \* the results list
    visited,               \* set of fragment-stripped URLs fetched
    consecutive_failures,
    stack,                 \* active search_page invocations
    cur,                   \* page fetched with status 200, not yet analysed
    exc,                   \* TRUE while a DownloadError propagates
    commonIdx,             \* next entry of common_paths
    afterRaise,            \* the last probe did not reach "if results: break"
    outerYears,            \* years of the caller's call while nested
    outcome,               \* "running", "returned" or "raised"
    \* ---- observations ----
    attemptedFor,          \* per year: the stages attempted for it so far
    raisedIn,              \* stage in which the call raised
    commonTrips,           \* DownloadErrors caught during common-path probing
    \* ---- download_pdf ----
    dpc,                   \* position in download_pdf
    attempt,               \* the loop variable of "for attempt in range(max_retries)"
    max_retries,
    min_pages,
    result,                \* the result dict
    temp_file,             \* what is at output_path + '.tmp'
    output_file,           \* what is at output_path
    requests,              \* download requests issued for the PDF URL
    failures,              \* attempts that failed
    user_agent,            \* index in USER_AGENTS of the last request's User-Agent
    \* ---- the files, the coverage table and the scripts ----
    files,                 \* per (cid, year) and file name: what is on disk
    table,                 \* coverage_table_updated.csv, per (cid, year)
    has_priority,          \* the table has the Priority and Validation columns
    script,                \* "idle", or the script that is running
    df,                    \* redownload_failed: the table in memory
    todo,                  \* redownload_failed: incomplete rows not yet processed
    written_by,            \* the script that wrote the table last
    \* ---- download_reports and update_coverage_table ----
    cpc,                   \* position in the run
    valid_df,              \* download_reports: the companies selected
    next_company,          \* download_reports: index of the next row of valid_df
    all_results,           \* download_reports: all_results, then the summary file
    coverage_records,      \* update_coverage_table: the rows written
    \* ---- validate_pdf ----
    vpc,                   \* position in validate_pdf
    pdf,                   \* the file at pdf_path, with what its text holds
    validation,            \* validate_pdf: result
    \* ---- categorize_connection_error ----
    epc,                   \* position in categorize_connection_error
    exception,             \* the exception passed in
    error_type,            \* the error type returned
    \* ---- test_url_with_multiple_agents and test_connection ----
    tpc,                   \* position in test_url_with_multiple_agents
    configured_agents,     \* diagnose_connections: USER_AGENTS
    has_categorizer,       \* categorize_connection_error was imported
    agent_idx,             \* index of the user agent tried next
    agent_results,         \* test_url_with_multiple_agents: all_results
    successful_result,     \* the successful attempt, or NoResult
    best_result,           \* best_result of the dict returned
    \* ---- normalize_name ----
    npc,                   \* normalize_name: the statement to run next
    given_name,            \* normalize_name: the argument
    name,                  \* normalize_name: name, a sequence of characters
    \* ---- download_company_reports ----
    rpc,                   \* position in download_company_reports
    reports_found,         \* reports, the list find_annual_reports returned
    company_dir,           \* per year: what is at annual_report_{year}.pdf
    years_left,            \* years of reports_by_year not yet processed
    candidate_idx,         \* index in candidates of the report tried next
    company_downloads,     \* download_company_reports: downloads
    pdf_calls,             \* the (year, candidate) pairs passed to download_pdf
    dir_before,            \* company_dir when the call started
    company_summary        \* the dict returned

\* arguments that one call never changes
findArgs == <<max_depth, max_failures, enable_failsafe, company_name>>
\* the crawler: search_page and the state it closes over
crawlVars == <<visited, consecutive_failures, stack, cur, exc>>
\* the body of find_annual_reports
bodyVars == <<pc, level, years, results, commonIdx, afterRaise, outerYears,
              outcome>>
obsVars == <<attemptedFor, raisedIn, commonTrips>>

findVars == <<findArgs, crawlVars, bodyVars, obsVars>>

downloadArgs == <<max_retries, min_pages>>
downloadVars == <<dpc, attempt, downloadArgs, result, temp_file, output_file,
                  requests, failures, user_agent>>

pipeVars == <<files, table, has_priority, script, df, todo, written_by>>
coverageVars == <<cpc, valid_df, next_company, all_results, coverage_records>>
validateVars == <<vpc, pdf, validation>>
categorizeVars == <<epc, exception, error_type>>
diagnoseVars == <<tpc, configured_agents, has_categorizer, agent_idx, agent_results, successful_result, best_result>>
nameVars == <<npc, given_name, name>>
companyVars == <<rpc, reports_found, company_dir, years_left, candidate_idx, company_downloads, pdf_calls, dir_before, company_summary>>

\* what the steps of find_annual_reports leave alone
notFind == <<downloadVars, pipeVars, coverageVars, validateVars, categorizeVars, diagnoseVars, nameVars, companyVars>>
\* what the steps of download_pdf leave alone
notDownload == <<findVars, pipeVars, coverageVars, validateVars, categorizeVars, diagnoseVars, nameVars, companyVars>>
\* what the scripts working on files and table leave alone
notPipe == <<findVars, downloadVars, coverageVars, validateVars, categorizeVars, diagnoseVars, nameVars, companyVars>>
\* what download_reports and update_coverage_table leave alone
notCoverage == <<findVars, downloadVars, pipeVars, validateVars, categorizeVars, diagnoseVars, nameVars, companyVars>>
\* what validate_pdf leaves alone
notValidate == <<findVars, downloadVars, pipeVars, coverageVars, categorizeVars, diagnoseVars, nameVars, companyVars>>
\* what categorize_connection_error leaves alone
notCategorize == <<findVars, downloadVars, pipeVars, coverageVars, validateVars, diagnoseVars, nameVars, companyVars>>
\* what test_url_with_multiple_agents and test_connection leaves alone
notDiagnose == <<findVars, downloadVars, pipeVars, coverageVars, validateVars, categorizeVars, nameVars, companyVars>>
\* what normalize_name leaves alone
notName == <<findVars, downloadVars, pipeVars, coverageVars, validateVars, categorizeVars, diagnoseVars, companyVars>>
\* what download_company_reports leaves alone
notCompany == <<findVars, downloadVars, pipeVars, coverageVars, validateVars, categorizeVars, diagnoseVars, nameVars>>

vars == <<findVars, downloadVars, pipeVars, coverageVars, validateVars, categorizeVars, diagnoseVars, nameVars, companyVars>>

(***************************************************************************)
(* Helpers.                                                                *)
(***************************************************************************)
NoPage == [url |-> -1, depth |-> -1]

Min(a, b) == IF a < b THEN a ELSE b

RECURSIVE SetToAscSeq(_)
\* a set of years as the ascending list the code iterates over
SetToAscSeq(S) ==
    IF S = {} THEN <<>>
    ELSE LET m == CHOOSE x \in S : \A y \in S : x <= y
         IN <<m>> \o SetToAscSeq(S \ {m})

SeqsUpTo(S, n) == UNION {[1 .. k -> S] : k \in 0 .. n}

\* the lists of links to follow that the analysis of a page may produce
LinkLists ==
    {s \in SeqsUpTo(Urls, MaxLinks) : \A i, j \in 1 .. Len(s) : s[i] = s[j] => i = j}

\* report entry as appended to results
Report(y, src) == [year |-> y, source_page |-> src]

YearsOf(rs) == {rs[i].year : i \in 1 .. Len(rs)}

\* results.extend(direct_results) for the years found, in the order of years;
\* a direct result carries 'source_page': ir_url
DirectReports(found) ==
    LET s == SetToAscSeq(found) IN [i \in 1 .. Len(s) |-> Report(s[i], IrUrl)]

\* if year in years: results.append(...)   (one analysed page)
PageReports(detected, wanted, url) ==
    LET keep == SelectSeq(detected, LAMBDA y : y \in wanted)
    IN [i \in 1 .. Len(keep) |-> Report(keep[i], url)]

RECURSIVE DedupFrom(_, _)
DedupFrom(rs, seen) ==
    IF rs = <<>> THEN <<>>
    ELSE IF Head(rs).year \in seen THEN DedupFrom(Tail(rs), seen)
         ELSE <<Head(rs)>> \o DedupFrom(Tail(rs), seen \cup {Head(rs).year})

\* the results without the deduplication
UniqueResultsKeepAll(rs) == rs

\* Deduplicate by year (keep first occurrence)
UniqueResults(rs) == DedupFrom(rs, {})

RECURSIVE SortedDesc(_)
\* sorted(..., key=lambda x: x['year'], reverse=True); stable
SortedDesc(rs) ==
    IF rs = <<>> THEN <<>>
    ELSE LET m == CHOOSE i \in 1 .. Len(rs) :
                     /\ \A j \in 1 .. Len(rs) : rs[j].year <= rs[i].year
                     /\ \A j \in 1 .. (i - 1) : rs[j].year < rs[i].year
             rest == [j \in 1 .. (Len(rs) - 1) |-> IF j < m THEN rs[j] ELSE rs[j + 1]]
         IN <<rs[m]>> \o SortedDesc(rest)

\* the test without the visited set
SkipPageDepthOnly(url, depth, md, seen) == depth > md

\* if depth > max_depth or url_no_fragment in visited: return
SkipPage(url, depth, md, seen) == depth > md \/ url \in seen

\* the breaker comparing with > instead of >=
BreakerTrippedLate(cf, mf) == cf > mf

\* if consecutive_failures >= max_failures: raise DownloadError
BreakerTripped(cf, mf) == cf >= mf

\* links queued also from pages at depth = max_depth
PagesToVisitTooDeep(links, depth, md) ==
    IF depth <= md THEN SubSeq(links, 1, Min(FollowLimit, Len(links))) ELSE <<>>

\* if depth < max_depth and (...): pages_to_visit.append(abs_url)
\* for next_url in pages_to_visit[:5]
PagesToVisit(links, depth, md) ==
    IF depth < md THEN SubSeq(links, 1, Min(FollowLimit, Len(links))) ELSE <<>>

Frame(d, q) == [depth |-> d, queue |-> q]
\* search_page(url, 0) called from the body of find_annual_reports
RootCall(url) == <<Frame(-1, <<url>>)>>

Top == stack[Len(stack)]

RECURSIVE Unwind(_)
\* an invocation whose pages_to_visit are done returns to its caller
Unwind(st) ==
    IF st # <<>> /\ st[Len(st)].queue = <<>>
    THEN Unwind(SubSeq(st, 1, Len(st) - 1))
    ELSE st

\* the call search_page(next_url, depth + 1) is made
PopHead == [stack EXCEPT ![Len(stack)].queue = Tail(@)]

Running == outcome = "running"

\* enable_failsafe of the running call: the nested call is made with
\* enable_failsafe=False
FailsafeEnabled == enable_failsafe /\ level = 0

\* the loop over common_paths without its "except DownloadError"
HandlerCommonUncaught(stage, lvl) == IF lvl = 1 THEN "caller" ELSE "none"

\* what becomes of a DownloadError that leaves search_page: the loop over
\* common_paths catches it and continues, the caller of the nested call
\* catches it, the call search_page(ir_url, 0) has no handler
Handler(stage, lvl) ==
    IF stage = "common" THEN "continue"
    ELSE IF lvl = 1 THEN "caller"
    ELSE "none"

\* a fallback condition that looks at the number of reports instead
FewerThanRequested(rs) == Len(rs) < Cardinality(TargetYears)

\* "not results": the test that opens the common-path, failsafe and MFN
\* stages
NotResults(rs) == rs = <<>>

(***************************************************************************)
(* find_annual_reports (tier1/report_downloader.py).                       *)
(***************************************************************************)
FindInit ==
    /\ pc = "direct"
    /\ level = 0
    /\ max_depth \in -1 .. MaxDepthArg
    /\ max_failures \in 1 .. MaxFailuresArg
    /\ enable_failsafe \in BOOLEAN
    /\ company_name \in BOOLEAN
    /\ years = TargetYears
    /\ results = <<>>
    /\ visited = {}
    /\ consecutive_failures = 0
    /\ stack = <<>>
    /\ cur = NoPage
    /\ exc = FALSE
    /\ commonIdx = 1
    /\ afterRaise = FALSE
    /\ outerYears = {}
    /\ outcome = "running"
    /\ attemptedFor = [y \in TargetYears |-> {}]
    /\ raisedIn = "none"
    /\ commonTrips = 0

\* the stages attempted so far for any year
tried == UNION {attemptedFor[y] : y \in TargetYears}

\* stages are attempted for the years ys
Attempted(af, ys, stages) ==
    [y \in TargetYears |-> IF y \in ys THEN af[y] \cup stages ELSE af[y]]

\* a stage of the caller's call is attempted for the years still looked for
\* (the nested call is part of the caller's failsafe stage)
Attempt(ys, stages) ==
    attemptedFor' = IF level = 0 THEN Attempted(attemptedFor, ys, stages)
                    ELSE attemptedFor

\* return of the running call: the nested call's value is returned by the
\* caller unchanged (return find_annual_reports(new_ir_url, ...)).
Return(value) ==
    /\ results' = value
    /\ outcome' = "returned"
    /\ pc' = "done"
    /\ level' = 0

\* try_direct_url_patterns and the early return when every year was found;
\* otherwise the crawl starts with search_page(ir_url, 0).
TryDirectUrlPatterns ==
    /\ Running /\ pc = "direct"
    /\ \E found \in SUBSET years :
         LET rs == results \o DirectReports(found)
             left == years \ found
         IN /\ years' = left
            /\ IF found # {} /\ left = {}
               THEN /\ Return(SortedDesc(rs))
                    /\ Attempt(years, {"direct"})
                    /\ UNCHANGED <<stack, visited, consecutive_failures>>
               ELSE /\ results' = rs
                    /\ pc' = "crawl"
                    /\ visited' = {}
                    /\ consecutive_failures' = 0
                    /\ stack' = RootCall(IrUrl)
                    /\ attemptedFor' =
                         IF level = 0
                         THEN Attempted(Attempted(attemptedFor, years, {"direct"}),
                                        left, {"crawl"})
                         ELSE attemptedFor
                    /\ UNCHANGED <<outcome, level>>
    /\ UNCHANGED <<notFind, findArgs, cur, exc, commonIdx, afterRaise, outerYears,
                   raisedIn, commonTrips>>

\* search_page(url, depth) returning at once: too deep or already visited
SearchPageSkip ==
    /\ Running /\ ~exc /\ cur = NoPage
    /\ stack # <<>> /\ Top.queue # <<>>
    /\ SkipPage(Head(Top.queue), Top.depth + 1, max_depth, visited)
    /\ stack' = Unwind(PopHead)
    /\ UNCHANGED <<notFind, findArgs, visited, consecutive_failures, cur, exc, bodyVars,
                   obsVars>>

\* search_page(url, depth): the request and its status
SearchPageFetch ==
    /\ Running /\ ~exc /\ cur = NoPage
    /\ stack # <<>> /\ Top.queue # <<>>
    /\ LET url == Head(Top.queue)
           depth == Top.depth + 1
       IN /\ ~SkipPage(url, depth, max_depth, visited)
          /\ visited' = visited \cup {url}
          /\ \E status \in {"failed", "200"} :
               IF status = "200"
               THEN /\ consecutive_failures' = 0
                    /\ cur' = [url |-> url, depth |-> depth]
                    /\ exc' = FALSE
                    /\ stack' = PopHead
               ELSE /\ consecutive_failures' = consecutive_failures + 1
                    /\ cur' = NoPage
                    /\ exc' = BreakerTripped(consecutive_failures + 1, max_failures)
                    /\ stack' = Unwind(PopHead)
    /\ UNCHANGED <<notFind, findArgs, bodyVars, obsVars>>

\* search_page after a 200: the links are analysed, reports of wanted years
\* are appended and the pages to follow are queued; an exception raised by
\* the analysis counts as a failure.
SearchPageAnalyse ==
    /\ Running /\ ~exc /\ cur # NoPage
    /\ \E detected \in SeqsUpTo(YearUniverse, 1) :
        /\ results' = results \o PageReports(detected, years, cur.url)
        /\ \/ /\ consecutive_failures' = consecutive_failures + 1
              /\ exc' = BreakerTripped(consecutive_failures + 1, max_failures)
              /\ stack' = Unwind(stack)
           \/ \E links \in LinkLists :
                /\ stack' = Unwind(Append(stack,
                                Frame(cur.depth, PagesToVisit(links, cur.depth, max_depth))))
                /\ UNCHANGED <<consecutive_failures, exc>>
    /\ cur' = NoPage
    /\ UNCHANGED <<notFind, findArgs, visited, pc, level, years, commonIdx, afterRaise,
                   outerYears, outcome, obsVars>>

\* DownloadError leaving search_page with no handler around the call: the
\* caller's call raises.
Raises ==
    /\ Running /\ exc /\ Handler(pc, level) = "none"
    /\ outcome' = "raised"
    /\ raisedIn' = pc
    /\ pc' = "done"
    /\ exc' = FALSE
    /\ stack' = <<>>
    /\ UNCHANGED <<notFind, findArgs, visited, consecutive_failures, cur, level, years,
                   results, commonIdx, afterRaise, outerYears, attemptedFor,
                   commonTrips>>

\* the nested call raises and the caller's "except Exception" takes over:
\* the caller goes on to the MFN fallback with its own (empty) results.
NestedRaises ==
    /\ Running /\ exc /\ Handler(pc, level) = "caller"
    /\ level' = 0
    /\ results' = <<>>
    /\ years' = outerYears
    /\ pc' = "mfn"
    /\ exc' = FALSE
    /\ stack' = <<>>
    /\ UNCHANGED <<notFind, findArgs, visited, consecutive_failures, cur, commonIdx,
                   afterRaise, outerYears, outcome, obsVars>>

\* the crawl of the IR page is over: with no results the common paths are
\* probed, the failure counter starting again at 0
AfterCrawl ==
    /\ Running /\ ~exc /\ cur = NoPage /\ pc = "crawl" /\ stack = <<>>
    /\ IF NotResults(results)
       THEN /\ pc' = "common"
            /\ consecutive_failures' = 0
            /\ commonIdx' = 1
            /\ afterRaise' = FALSE
            /\ Attempt(years, {"common"})
       ELSE /\ pc' = "failsafe"
            /\ UNCHANGED <<consecutive_failures, commonIdx, afterRaise, attemptedFor>>
    /\ UNCHANGED <<notFind, findArgs, visited, stack, cur, exc, level, years, results,
                   outerYears, outcome, raisedIn, commonTrips>>

\* one turn of "for path in common_paths": the break when the previous probe
\* returned with results, then the next path unless it was visited already
CommonPathNext ==
    /\ Running /\ ~exc /\ cur = NoPage /\ pc = "common" /\ stack = <<>>
    /\ IF (~afterRaise /\ results # <<>>) \/ commonIdx > NumCommon
       THEN /\ pc' = "failsafe"
            /\ afterRaise' = FALSE
            /\ UNCHANGED <<stack, commonIdx>>
       ELSE /\ commonIdx' = commonIdx + 1
            /\ pc' = pc
            /\ IF CommonPaths[commonIdx] \notin visited
               THEN /\ stack' = RootCall(CommonPaths[commonIdx])
                    /\ afterRaise' = FALSE
               ELSE \* a visited URL is passed over without the break test
                    /\ stack' = <<>>
                    /\ afterRaise' = afterRaise
    /\ UNCHANGED <<notFind, findArgs, visited, consecutive_failures, cur, exc, level,
                   years, results, outerYears, outcome, obsVars>>

\* except DownloadError: consecutive_failures = 0; continue
CommonPathCatch ==
    /\ Running /\ exc /\ Handler(pc, level) = "continue"
    /\ exc' = FALSE
    /\ consecutive_failures' = 0
    /\ stack' = <<>>
    /\ afterRaise' = TRUE
    /\ commonTrips' = 1
    /\ UNCHANGED <<notFind, findArgs, visited, cur, pc, level, years, results,
                   commonIdx, outerYears, outcome, attemptedFor, raisedIn>>

\* FAILSAFE: with no results and the failsafe enabled, look for an IR link
\* on the main site (only when ir_url has a path); a link other than ir_url
\* starts the nested call, whose value the caller returns.
Failsafe ==
    /\ Running /\ pc = "failsafe"
    /\ IF NotResults(results) /\ FailsafeEnabled
       THEN /\ Attempt(years, {"failsafe"})
            /\ \E new_ir_url \in {"none", "same", "new"} :
                 IF new_ir_url = "new"
                 THEN /\ level' = 1
                      /\ outerYears' = years
                      /\ pc' = "direct"
                 ELSE /\ pc' = "mfn"
                      /\ UNCHANGED <<level, outerYears>>
       ELSE /\ pc' = "mfn"
            /\ UNCHANGED <<attemptedFor, level, outerYears>>
    /\ UNCHANGED <<notFind, findArgs, crawlVars, years, results, commonIdx, afterRaise,
                   outcome, raisedIn, commonTrips>>

\* find_reports_via_mfn(company_name, years): its reports, or an exception
MfnOutcomes(wanted) ==
    {[raised |-> TRUE, reports |-> <<>>]} \cup
    {[raised |-> FALSE, reports |-> [i \in 1 .. Len(s) |-> Report(s[i], MfnSource)]] :
        s \in SeqsUpTo(wanted, 1)}

\* MFN FALLBACK, then the deduplication by year and the sorted return
MfnFallback ==
    /\ Running /\ pc = "mfn"
    /\ IF NotResults(results) /\ company_name /\ FailsafeEnabled
       THEN /\ Attempt(years, {"mfn"})
            /\ \E m \in MfnOutcomes(years) :
                 Return(SortedDesc(UniqueResults(results \o m.reports)))
       ELSE /\ attemptedFor' = attemptedFor
            /\ Return(SortedDesc(UniqueResults(results)))
    /\ UNCHANGED <<notFind, findArgs, crawlVars, years, commonIdx, afterRaise,
                   outerYears, raisedIn, commonTrips>>

\* redownload_failed after its call find_annual_reports(ir_url, years=years),
\* made without company_name: for a year with no report among those returned
\* the company's Playwright handler is run (a company in PLAYWRIGHT_HANDLERS).
RedownloadPlaywright ==
    /\ outcome = "returned" /\ pc = "done"
    /\ enable_failsafe /\ ~company_name
    /\ \E year \in TargetYears :
         /\ year \notin YearsOf(results)
         /\ "playwright" \notin attemptedFor[year]
         /\ attemptedFor' = Attempted(attemptedFor, {year}, {"playwright"})
    /\ UNCHANGED <<notFind, findArgs, crawlVars, bodyVars, raisedIn, commonTrips>>

FindNext ==
    \/ TryDirectUrlPatterns
    \/ SearchPageSkip
    \/ SearchPageFetch
    \/ SearchPageAnalyse
    \/ Raises
    \/ NestedRaises
    \/ AfterCrawl
    \/ CommonPathNext
    \/ CommonPathCatch
    \/ Failsafe
    \/ MfnFallback
    \/ RedownloadPlaywright

(***************************************************************************)
(* download_pdf (tier1/report_downloader.py).                              *)
(***************************************************************************)
\* nothing at a path
NoFile == [kind |-> "none", pages |-> 0]
\* a file that was at output_path before the call
OldFile == [kind |-> "old", pages |-> 0]
\* downloaded content that PdfReader parses, with its page count
Pdf(pages) == [kind |-> "pdf", pages |-> pages]
\* downloaded content that PdfReader rejects
Garbage == [kind |-> "garbage", pages |-> 0]

Contents == {Garbage} \cup {Pdf(n) : n \in 0 .. MaxPageCount}

\* for attempt in range(max_retries)
InRange(a, mr) == a < mr

\* if attempt < max_retries - 1: continue      (else: return result)
MoreRetries(a, mr) == a < mr - 1

\* the page check letting a PDF one page short pass
TooFewPagesOffByOne(pages, mp) == pages < mp - 1

\* if result['pages'] < min_pages
TooFewPages(pages, mp) == pages < mp

\* the loop body without its "except Exception"
CatchInnerOnly(kind) ==
    IF kind \in {"connection", "parse"} THEN "inner" ELSE "none"

\* the except clause that catches an exception raised in the loop body:
\* (Timeout, SSLError, ConnectionError) around requests.get and Exception
\* around PdfReader are caught next to the call, anything else by the
\* "except Exception" that closes the loop body
Catch(kind) ==
    IF kind \in {"connection", "parse"} THEN "inner" ELSE "outer"

\* USER_AGENTS, by index in the list
USER_AGENTS == 1 .. 5

\* get_random_user_agent(): random.choice(USER_AGENTS), any of them
GetRandomUserAgent == USER_AGENTS

DownloadIdle ==
    /\ dpc = "idle"
    /\ attempt = 0
    /\ max_retries = 0
    /\ min_pages = 0
    /\ result = [success |-> FALSE, pages |-> 0, error |-> "none"]
    /\ temp_file = NoFile
    /\ output_file = NoFile
    /\ requests = 0
    /\ failures = 0
    /\ user_agent = 0

DownloadInit ==
    /\ dpc = "start"
    /\ attempt = 0
    /\ max_retries \in 0 .. MaxRetriesArg
    /\ min_pages \in 1 .. MaxPageCount
    /\ result = [success |-> FALSE, pages |-> 0, error |-> "none"]
    /\ temp_file = NoFile
    /\ output_file \in {NoFile, OldFile}
    /\ requests = 0
    /\ failures = 0
    /\ user_agent = 0

\* an attempt has failed with its temp file gone: the next attempt when one
\* is left, else return result
AttemptFailed(err) ==
    /\ result' = [result EXCEPT !.error = err]
    /\ failures' = failures + 1
    /\ temp_file' = NoFile
    /\ IF MoreRetries(attempt, max_retries)
       THEN /\ attempt' = attempt + 1
            /\ dpc' = IF InRange(attempt + 1, max_retries) THEN "request"
                      ELSE "returned"
       ELSE /\ attempt' = attempt
            /\ dpc' = "returned"

\* an exception raised in the loop body: handled as a failed attempt by the
\* clause that catches it, or leaving download_pdf when none does
Exception(kind) ==
    IF Catch(kind) = "none"
    THEN /\ dpc' = "raised"
         /\ UNCHANGED <<attempt, result, temp_file, failures>>
    ELSE AttemptFailed(kind)

\* the URL is a PDF, or an HTML page on which extract_pdf_from_html_page
\* finds a PDF link or none; then the loop is entered
DownloadStart ==
    /\ dpc = "start"
    /\ \E url \in {"pdf", "html_with_pdf", "html_without_pdf"} :
         IF url = "html_without_pdf"
         THEN /\ result' = [result EXCEPT !.error = "no_pdf_on_page"]
              /\ dpc' = "returned"
         ELSE /\ result' = result
              /\ dpc' = IF InRange(0, max_retries) THEN "request" ELSE "returned"
    /\ UNCHANGED <<notDownload, attempt, downloadArgs, temp_file, output_file,
                   requests, failures, user_agent>>

\* headers = {"User-Agent": get_random_user_agent()},
\* requests.get(actual_pdf_url, ...) and the status check
DownloadRequest ==
    /\ dpc = "request"
    /\ requests' = requests + 1
    /\ user_agent' \in GetRandomUserAgent
    /\ \E resp \in {"200", "http_error", "connection", "other"} :
         IF resp = "200"
         THEN /\ dpc' = "save"
              /\ UNCHANGED <<attempt, result, temp_file, failures>>
         ELSE IF resp = "http_error"
              THEN AttemptFailed(resp)
              ELSE Exception(resp)
    /\ UNCHANGED <<notDownload, downloadArgs, output_file>>

\* the body is streamed to the temp file; the stream may break
DownloadSave ==
    /\ dpc = "save"
    /\ \/ /\ Exception("other")
       \/ /\ \E content \in Contents : temp_file' = content
          /\ dpc' = "validate"
          /\ UNCHANGED <<attempt, result, failures>>
    /\ UNCHANGED <<notDownload, downloadArgs, output_file, requests, user_agent>>

\* PdfReader, the page check and the move to output_path
DownloadValidate ==
    /\ dpc = "validate"
    /\ IF temp_file.kind = "garbage"
       THEN /\ Exception("parse")
            /\ UNCHANGED output_file
       ELSE IF TooFewPages(temp_file.pages, min_pages)
            THEN /\ result' = [result EXCEPT !.pages = temp_file.pages,
                                             !.error = "few_pages"]
                 /\ failures' = failures + 1
                 /\ temp_file' = NoFile
                 /\ dpc' = "returned"
                 /\ UNCHANGED <<attempt, output_file>>
            ELSE /\ result' = [result EXCEPT !.pages = temp_file.pages,
                                             !.success = TRUE]
                 /\ output_file' = temp_file
                 /\ temp_file' = NoFile
                 /\ dpc' = "returned"
                 /\ UNCHANGED <<attempt, failures>>
    /\ UNCHANGED <<notDownload, downloadArgs, requests, user_agent>>

DownloadNext ==
    \/ DownloadStart
    \/ DownloadRequest
    \/ DownloadSave
    \/ DownloadValidate

(***************************************************************************)
(* The files under companies/ and the coverage table, as the scripts       *)
(* download_reports (download_company_reports), validate_reports and       *)
(* redownload_failed leave them.  redownload_failed imports through        *)
(* aspiratio.utils, which utils/__init__.py declares a compatibility layer *)
(* re-exporting the tier modules: find_annual_reports, download_pdf and    *)
(* PLAYWRIGHT_HANDLERS are those of tier1 and tier2.                       *)
(* One fiscal year per company is followed; the rows of the other target   *)
(* years are handled alike and independently.  Priority 'Complete ✓' is    *)
(* written "Complete", 'Needs Work ⚠' is written "Needs Work".             *)
(***************************************************************************)
Companies == {"S1", "S6"}

\* PLAYWRIGHT_HANDLERS = {'S6': download_atlas_copco_report}
PLAYWRIGHT_HANDLERS == {"S6"}

PipeYears == {2024}
Pairs == Companies \X PipeYears

\* the rows of the table in file order
RowOrder == << <<"S1", 2024>>, <<"S6", 2024>> >>

\* os.path.join(company_dir, f"annual_report_{year}.pdf"), the name used by
\* download_company_reports and by the Playwright handler
DownloadName == "annual_report_YEAR.pdf"

\* output_dir / f"{cid}_{year}_Annual_Report.pdf", the name used by
\* redownload_failed
RedownloadName == "CID_YEAR_Annual_Report.pdf"

FileNames == {DownloadName, RedownloadName}

\* a PDF that download_pdf accepts (50 pages or more): "good" passes
\* validate_pdf, "bad" has 50 to 500 pages but lacks the company name or
\* the year, "long" has more than 500 pages
PdfContents == {"good", "bad", "long"}

\* validate_pdf(pdf_path, company_name, expected_year)['valid']
ValidatePdf(content) == content = "good"

\* scan_downloaded_reports: every *.pdf of a company directory, attributed
\* to the year that is the first four digits of its name
ScanDownloadedReports(fs) ==
    {<<p, n>> \in Pairs \X FileNames : fs[p][n] # "none"}

\* a row as update_coverage_table writes it when no report was found
NotFoundRow ==
    [CaptureStatus |-> "Not Found", Report_URL |-> "",
     Validation_Status |-> "", Priority |-> ""]

\* clear_file_info_for_row
ClearedRow(row) ==
    [row EXCEPT !.Report_URL = "", !.Validation_Status = "",
                !.Priority = "Not Downloaded", !.CaptureStatus = ""]

\* validate_reports: a row with a matching validation result
ValidatedRow(row, valid) ==
    IF valid
    THEN [row EXCEPT !.Validation_Status = "Valid",
                     !.CaptureStatus = "Downloaded",
                     !.Priority = "Complete"]
    ELSE [row EXCEPT !.Validation_Status = "Invalid",
                     !.CaptureStatus = "Validation Failed",
                     !.Priority = "Needs Work"]

\* validate_reports: a row without validation result
UnmatchedRow(row) ==
    IF row.CaptureStatus \notin {"Downloaded", "Validation Failed"}
    THEN [row EXCEPT !.Priority = "Not Downloaded"]
    ELSE row

\* redownload_failed, Step 6: the row after a download and its validation
DownloadedRow(row, valid) ==
    [row EXCEPT !.Report_URL = "url",
                !.Validation_Status = IF valid THEN "Valid" ELSE "Invalid",
                !.CaptureStatus = "Downloaded",
                !.Priority = IF valid THEN "Complete" ELSE "Needs Work"]

\* redownload_failed: the row after a successful Playwright download
PlaywrightRow(row, valid, url) ==
    [row EXCEPT !.Report_URL = url,
                !.Validation_Status = IF valid THEN "Valid" ELSE "Invalid",
                !.CaptureStatus = "Playwright",
                !.Priority = IF valid THEN "Complete" ELSE row.Priority]

\* download_atlas_copco_report(year, output_dir): an existing file of more
\* than 1 MB is kept ('Already exists', url None); else the browser session
\* yields a PDF URL or fails, and download_pdf writes the file or fails
PlaywrightOutcomes(existing) ==
    (IF existing # "none"
     THEN {[success |-> TRUE, file |-> existing, url |-> ""]}
     ELSE {})
    \cup {[success |-> FALSE, file |-> existing, url |-> ""]}
    \cup {[success |-> TRUE, file |-> c, url |-> "url"] : c \in PdfContents}

PipeIdle ==
    /\ files = [p \in Pairs |-> [n \in FileNames |-> "none"]]
    /\ table = [p \in Pairs |-> NotFoundRow]
    /\ has_priority = FALSE
    /\ script = "off"
    /\ df = [p \in Pairs |-> NotFoundRow]
    /\ todo = <<>>
    /\ written_by = "none"

\* download_reports found nothing and update_coverage_table wrote the table
PipeInit ==
    /\ files = [p \in Pairs |-> [n \in FileNames |-> "none"]]
    /\ table = [p \in Pairs |-> NotFoundRow]
    /\ has_priority = FALSE
    /\ script = "idle"
    /\ df = [p \in Pairs |-> NotFoundRow]
    /\ todo = <<>>
    /\ written_by = "update_coverage_table"

\* download_company_reports for one company, a report of the year found:
\* an existing annual_report file is skipped, else download_pdf writes the
\* file or fails; a PDF of more than 500 pages is removed again.
DownloadCompanyReports ==
    /\ script = "idle"
    /\ \E p \in Pairs, dl \in {"failed"} \cup PdfContents :
         /\ files[p][DownloadName] = "none"
         /\ files' = [files EXCEPT ![p][DownloadName] =
                         IF dl \in {"failed", "long"} THEN "none" ELSE dl]
    /\ UNCHANGED <<notPipe, table, has_priority, script, df, todo, written_by>>

\* validate_reports: the reports not yet validated are validated and the
\* table is updated; of two results for one row the first one counts, in
\* the order in which the directory lists the files.
ValidateReports ==
    /\ script = "idle"
    /\ LET already_validated ==
               IF has_priority
               THEN {p \in Pairs : /\ table[p].Validation_Status = "Valid"
                                   /\ table[p].Priority = "Complete"}
               ELSE {}
           reports == {r \in ScanDownloadedReports(files) :
                          r[1] \notin already_validated}
           matched == {r[1] : r \in reports}
       IN /\ reports # {}
          /\ \E first \in [matched -> FileNames] :
               /\ \A p \in matched : <<p, first[p]>> \in reports
               /\ table' = [p \in Pairs |->
                              IF p \in matched
                              THEN ValidatedRow(table[p],
                                                ValidatePdf(files[p][first[p]]))
                              ELSE UnmatchedRow(table[p])]
    /\ has_priority' = TRUE
    /\ written_by' = "validate_reports"
    /\ UNCHANGED <<notPipe, files, script, df, todo>>

\* redownload_failed: the table is loaded and the rows with
\* Priority != 'Complete ✓' are selected
RedownloadStart ==
    /\ script = "idle"
    /\ has_priority
    /\ LET incomplete == SelectSeq(RowOrder,
                                   LAMBDA p : table[p].Priority # "Complete")
       IN /\ incomplete # <<>>
          /\ todo' = incomplete
    /\ df' = table
    /\ script' = "redownload_failed"
    /\ UNCHANGED <<notPipe, files, table, has_priority, written_by>>

\* redownload_failed: one company with its row.  A search that raises skips
\* the row.  Else the file is removed (Step 1), the row is cleared (Step 2)
\* and either the report found is downloaded and validated, or the
\* Playwright handler of the company is run, or nothing is found; the
\* table is saved except after a failed download.
RedownloadCompany ==
    /\ script = "redownload_failed" /\ todo # <<>>
    /\ LET p == Head(todo)
           cid == p[1]
           removed == IF df[p].Report_URL # ""
                      THEN [files EXCEPT ![p][RedownloadName] = "none"]
                      ELSE files
           cleared == [df EXCEPT ![p] = ClearedRow(df[p])]
       IN \E search \in {"raised", "none", "found"} :
            IF search = "raised"
            THEN UNCHANGED <<files, df, table, written_by>>
            ELSE IF search = "found"
            THEN \E dl \in {"failed"} \cup PdfContents :
                   IF dl = "failed"
                   THEN /\ files' = removed
                        /\ df' = cleared
                        /\ UNCHANGED <<table, written_by>>
                   ELSE /\ files' = [removed EXCEPT ![p][RedownloadName] = dl]
                        /\ df' = [cleared EXCEPT
                                    ![p] = DownloadedRow(@, ValidatePdf(dl))]
                        /\ table' = df'
                        /\ written_by' = "redownload_failed"
            ELSE /\ IF cid \in PLAYWRIGHT_HANDLERS
                    THEN \E pw \in PlaywrightOutcomes(removed[p][DownloadName]) :
                           /\ files' = [removed EXCEPT ![p][DownloadName] = pw.file]
                           /\ df' = IF pw.success
                                    THEN [cleared EXCEPT
                                            ![p] = PlaywrightRow(@,
                                                      ValidatePdf(pw.file), pw.url)]
                                    ELSE cleared
                    ELSE /\ files' = removed
                         /\ df' = cleared
                 /\ table' = df'
                 /\ written_by' = "redownload_failed"
    /\ todo' = Tail(todo)
    /\ script' = IF Tail(todo) = <<>> THEN "idle" ELSE script
    /\ UNCHANGED <<notPipe, has_priority>>

PipeNext ==
    \/ DownloadCompanyReports
    \/ ValidateReports
    \/ RedownloadStart
    \/ RedownloadCompany

(***************************************************************************)
(* download_reports and update_coverage_table (scripts/).                  *)
(***************************************************************************)
\* instrument_master.csv: the companies in file order, each CID once
MasterCids == <<"S1", "S6">>

\* target_years = [2019, 2020, 2021, 2022, 2023, 2024]
target_years == <<2019, 2020, 2021, 2022, 2023, 2024>>

\* the entries of a company result's 'downloads' list
DownloadEntries ==
    [year : {target_years[i] : i \in 1 .. Len(target_years)},
     status : {"success", "skipped", "failed"}]

\* download_company_reports makes one entry per year found
DownloadsLists ==
    {s \in SeqsUpTo(DownloadEntries, MaxDownloads) :
        \A i, j \in 1 .. Len(s) : s[i].year = s[j].year => i = j}

\* sum(1 for d in downloads if d['status'] == status)
CountStatus(downloads, status) ==
    Cardinality({i \in 1 .. Len(downloads) : downloads[i].status = status})

\* the dict returned by download_company_reports; every report found has
\* its entry in 'downloads'
Summary(cid, downloads) ==
    [cid |-> cid, error |-> "",
     found |-> Len(downloads),
     downloaded |-> CountStatus(downloads, "success"),
     failed |-> CountStatus(downloads, "failed"),
     downloads |-> downloads]

\* the entry that the except clauses of download_reports append
ErrorEntry(cid, kind) ==
    [cid |-> cid, error |-> kind,
     found |-> 0, downloaded |-> 0, failed |-> 0,
     downloads |-> <<>>]

\* how the call of download_company_reports ends: it returns its summary,
\* raises DownloadError (from find_annual_reports) or raises anything else
CallOutcomes == {"returned", "DownloadError", "Exception"}

\* only 'except DownloadError'
CaughtDownloadErrorOnly(kind) == kind = "DownloadError"

\* except DownloadError as e: ... except Exception as e: ...
Caught(kind) == kind \in {"DownloadError", "Exception"}

\* the first entry of 'downloads' for the year, if any
DownloadInfo(company_result, year) ==
    LET ds == company_result.downloads
        idx == {i \in 1 .. Len(ds) : ds[i].year = year}
    IN IF idx = {} THEN "none"
       ELSE ds[CHOOSE i \in idx : \A j \in idx : i <= j].status

\* status of the record of a company and year
CaptureStatus(company_result, year) ==
    LET dl_status == DownloadInfo(company_result, year)
    IN IF company_result.error # "" THEN "Error"
       ELSE IF dl_status = "none" THEN "Not Found"
       ELSE IF dl_status = "success" THEN "Success"
       ELSE IF dl_status = "skipped" THEN "Skipped"
       ELSE IF dl_status = "failed" THEN "Failed"
       ELSE "Unknown"

Record(company_result, year) ==
    [Company_Identifier |-> company_result.cid,
     FiscalYear |-> year,
     CaptureStatus |-> CaptureStatus(company_result, year)]

\* records only for the years that have an entry in 'downloads'
RecordsOfDownloadsOnly(company_result) ==
    [i \in 1 .. Len(company_result.downloads) |->
        Record(company_result, company_result.downloads[i].year)]

\* for year in target_years: ... coverage_records.append(record)
RecordsOf(company_result) ==
    [i \in 1 .. Len(target_years) |-> Record(company_result, target_years[i])]

RECURSIVE CoverageRecords(_)
\* for company_result in results: ...
CoverageRecords(results_list) ==
    IF results_list = <<>> THEN <<>>
    ELSE RecordsOf(Head(results_list)) \o CoverageRecords(Tail(results_list))

CoverageIdle ==
    /\ cpc = "off"
    /\ valid_df = <<>>
    /\ next_company = 1
    /\ all_results = <<>>
    /\ coverage_records = <<>>

\* valid_df: the rows of the master that are validated and have a report
\* missing, in file order
CoverageInit ==
    /\ cpc = "download_reports"
    /\ valid_df \in {SelectSeq(MasterCids, LAMBDA cid : cid \in s) :
                        s \in SUBSET {MasterCids[i] : i \in 1 .. Len(MasterCids)}}
    /\ next_company = 1
    /\ all_results = <<>>
    /\ coverage_records = <<>>

\* download_reports, one row of valid_df: download_company_reports returns
\* its summary or raises; an exception that is caught appends the error
\* entry, one that is not would end the script
DownloadReportsCompany ==
    /\ cpc = "download_reports"
    /\ valid_df # <<>>
    /\ next_company <= Len(valid_df)
    /\ LET cid == valid_df[next_company]
       IN \E kind \in CallOutcomes :
            IF kind = "returned"
            THEN /\ \E d \in DownloadsLists :
                      all_results' = Append(all_results, Summary(cid, d))
                 /\ next_company' = next_company + 1
                 /\ UNCHANGED cpc
            ELSE IF Caught(kind)
            THEN /\ all_results' = Append(all_results, ErrorEntry(cid, kind))
                 /\ next_company' = next_company + 1
                 /\ UNCHANGED cpc
            ELSE /\ cpc' = "aborted"
                 /\ UNCHANGED <<all_results, next_company>>
    /\ UNCHANGED <<notCoverage, valid_df, coverage_records>>

\* download_reports after its loop: json.dump(all_results, f); with no
\* company to process the script has returned before, without a summary
WriteSummary ==
    /\ cpc = "download_reports"
    /\ next_company > Len(valid_df)
    /\ cpc' = IF valid_df = <<>> THEN "no_summary" ELSE "summary_written"
    /\ UNCHANGED <<notCoverage, valid_df, next_company, all_results,
                   coverage_records>>

\* update_coverage_table: the table is built from the latest summary
UpdateCoverageTable ==
    /\ cpc = "summary_written"
    /\ coverage_records' = CoverageRecords(all_results)
    /\ cpc' = "updated"
    /\ UNCHANGED <<notCoverage, valid_df, next_company, all_results>>

CoverageNext ==
    \/ DownloadReportsCompany
    \/ WriteSummary
    \/ UpdateCoverageTable

(***************************************************************************)
(* validate_pdf (scripts/validate_reports.py).  The confidence is kept in  *)
(* tenths of a point, as round(confidence, 1) leaves it.                   *)
(***************************************************************************)
MIN_PAGES == 50
MAX_PAGES == 500

\* page counts of the files tried
PageCounts == {0, MIN_PAGES - 1, MIN_PAGES, MIN_PAGES + 1, 125, 200, 201,
               MAX_PAGES, MAX_PAGES + 1}

\* the files tried: 'exists' for os.path.exists(pdf_path), 'readable' for
\* PdfReader opening the file, 'text_error' for a text sample that starts
\* with 'ERROR', 'company_in_text' for a variation of the company name in
\* the sample, 'year_in_text' for one of the year patterns in it
PdfFiles ==
    [exists : BOOLEAN, readable : BOOLEAN, page_count : PageCounts,
     text_error : BOOLEAN, company_in_text : BOOLEAN, year_in_text : BOOLEAN]

\* result = {'valid': False, 'pages': 0, 'company_found': False, ...}
InitialResult ==
    [valid |-> FALSE, pages |-> 0, company_found |-> FALSE,
     year_found |-> FALSE, confidence |-> 0]

\* MIN_PAGES <= page_count <= MAX_PAGES
PagesInRange(page_count) == MIN_PAGES <= page_count /\ page_count <= MAX_PAGES

\* (page_count - MIN_PAGES) / (200 - MIN_PAGES) * 40, in tenths, rounded
PageScoreUncapped(page_count) ==
    (2 * (page_count - MIN_PAGES) * 400 + (200 - MIN_PAGES))
        \div (2 * (200 - MIN_PAGES))

\* min(40, (page_count - MIN_PAGES) / (200 - MIN_PAGES) * 40), in tenths;
\* the quotient is a multiple of a third, so rounding never meets a tie
PageScore(page_count) ==
    Min(400, (2 * (page_count - MIN_PAGES) * 400 + (200 - MIN_PAGES))
                \div (2 * (200 - MIN_PAGES)))

\* the confidence score, in tenths
Confidence(page_count, company_found, year_found) ==
    (IF PagesInRange(page_count) THEN PageScore(page_count) ELSE 0)
    + (IF company_found THEN 300 ELSE 0)
    + (IF year_found THEN 300 ELSE 0)

ValidateIdle ==
    /\ vpc = "off"
    /\ pdf = [exists |-> FALSE, readable |-> FALSE, page_count |-> 0,
              text_error |-> FALSE, company_in_text |-> FALSE,
              year_in_text |-> FALSE]
    /\ validation = InitialResult

ValidateInit ==
    /\ vpc = "open"
    /\ pdf \in PdfFiles
    /\ validation = InitialResult

\* the file is opened and its pages are counted; a missing file returns the
\* initial result, a file PdfReader cannot read ends in the except clause
ValidateOpen ==
    /\ vpc = "open"
    /\ IF ~pdf.exists \/ ~pdf.readable
       THEN /\ vpc' = "returned"
            /\ UNCHANGED validation
       ELSE /\ vpc' = "text"
            /\ validation' = [validation EXCEPT !.pages = pdf.page_count]
    /\ UNCHANGED <<notValidate, pdf>>

\* the text sample is searched for the company name and for the year
ValidateText ==
    /\ vpc = "text"
    /\ IF pdf.text_error
       THEN /\ vpc' = "returned"
            /\ UNCHANGED validation
       ELSE /\ vpc' = "score"
            /\ validation' = [validation EXCEPT
                                !.company_found = pdf.company_in_text,
                                !.year_found = pdf.year_in_text]
    /\ UNCHANGED <<notValidate, pdf>>

\* the confidence is computed and 'valid' is decided
ValidateScore ==
    /\ vpc = "score"
    /\ LET confidence == Confidence(pdf.page_count, validation.company_found,
                                    validation.year_found)
       IN validation' = [validation EXCEPT
                           !.confidence = confidence,
                           !.valid = /\ confidence >= 600
                                     /\ validation.company_found
                                     /\ validation.year_found
                                     /\ PagesInRange(pdf.page_count)]
    /\ vpc' = "returned"
    /\ UNCHANGED <<notValidate, pdf>>

ValidateNext ==
    \/ ValidateOpen
    \/ ValidateText
    \/ ValidateScore

(***************************************************************************)
(* categorize_connection_error (aspiratio/common/connection_errors.py).    *)
(***************************************************************************)
\* the classes of the exceptions tried, each with the classes that
\* isinstance tests of the function accept for it (requests.exceptions)
ExceptionBases ==
    [ReadTimeout     |-> {"Timeout"},
     ConnectTimeout  |-> {"Timeout", "ConnectionError"},
     SSLError        |-> {"SSLError", "ConnectionError"},
     ConnectionError |-> {"ConnectionError"},
     HTTPError       |-> {"HTTPError"},
     InvalidURL      |-> {},
     ValueError      |-> {}]

\* the substrings of str(exception) that the function looks for
Indicators ==
    {"NameResolutionError", "Failed to resolve", "getaddrinfo failed",
     "Connection refused", "Connection reset"}

\* an exception: its class, the indicators its text contains and its
\* response attribute (None, or a response with a status code)
Exceptions ==
    [class : DOMAIN ExceptionBases, text : SUBSET Indicators,
     has_response : BOOLEAN, status_code : {403, 404, 500}]

\* isinstance(exception, requests.exceptions.<cls>)
IsInstance(e, cls) == cls \in ExceptionBases[e.class]

\* the error types listed in the docstring
DocumentedErrorTypes ==
    {"timeout", "dns_error", "connection_refused", "connection_reset",
     "ssl_error", "http_error", "unknown"}

\* the error type returned, or "raised" when the function raises:
\* exception.response.status_code with response None is an AttributeError
CategorizeConnectionError(e) ==
    IF IsInstance(e, "Timeout") THEN "timeout"
    ELSE IF IsInstance(e, "SSLError") THEN "ssl_error"
    ELSE IF IsInstance(e, "ConnectionError")
    THEN IF e.text \cap {"NameResolutionError", "Failed to resolve",
                         "getaddrinfo failed"} # {}
         THEN "dns_error"
         ELSE IF "Connection refused" \in e.text THEN "connection_refused"
         ELSE IF "Connection reset" \in e.text THEN "connection_reset"
         ELSE "connection_error"
    ELSE IF IsInstance(e, "HTTPError")
    THEN IF ~e.has_response THEN "raised"
         ELSE IF e.status_code = 403 THEN "http_403_blocked"
         ELSE IF e.status_code = 404 THEN "http_404_not_found"
         ELSE "http_error"
    ELSE "unknown_error"

CategorizeIdle ==
    /\ epc = "off"
    /\ exception = [class |-> "ValueError", text |-> {},
                    has_response |-> FALSE, status_code |-> 500]
    /\ error_type = "none"

CategorizeInit ==
    /\ epc = "called"
    /\ exception \in Exceptions
    /\ error_type = "none"

\* the call returns its tuple, or raises
Categorize ==
    /\ epc = "called"
    /\ error_type' = CategorizeConnectionError(exception)
    /\ epc' = IF error_type' = "raised" THEN "raised" ELSE "returned"
    /\ UNCHANGED <<notCategorize, exception>>

CategorizeNext == Categorize

(***************************************************************************)
(* test_connection and test_url_with_multiple_agents                       *)
(* (scripts/diagnose_connections.py).  A user agent is written as its      *)
(* index in USER_AGENTS, None as "None".                                   *)
(***************************************************************************)
\* the status codes of the responses tried
StatusCodes == {200, 403, 404, 500}

\* the exceptions that requests.get raises in the runs tried
RequestExceptions ==
    {e \in Exceptions :
        /\ e.class # "HTTPError"
        /\ ~e.has_response /\ e.status_code = 500
        /\ e.text \in {{}, {"Failed to resolve"}, {"getaddrinfo failed"},
                       {"Connection refused"}, {"Connection reset"}}}

\* the error type of a response, without the final else
StatusErrorTypeNoElse(status_code) ==
    IF status_code = 200 THEN "None"
    ELSE IF status_code = 403 THEN "http_403_blocked"
    ELSE IF status_code = 404 THEN "http_404_not_found"
    ELSE "None"

\* test_connection: the error type of a response
StatusErrorType(status_code) ==
    IF status_code = 200 THEN "None"
    ELSE IF status_code = 403 THEN "http_403_blocked"
    ELSE IF status_code = 404 THEN "http_404_not_found"
    ELSE "http_error"

\* except (Timeout, SSLError, ConnectionError) as e
IsConnectionFailure(e) ==
    \/ IsInstance(e, "Timeout")
    \/ IsInstance(e, "SSLError")
    \/ IsInstance(e, "ConnectionError")

\* the inline categorisation used when the shared utility is missing
FallbackErrorType(e) ==
    IF IsInstance(e, "Timeout") THEN "timeout"
    ELSE IF IsInstance(e, "SSLError") THEN "ssl_error"
    ELSE IF e.text \cap {"NameResolutionError", "Failed to resolve"} # {}
    THEN "dns_error"
    ELSE IF "Connection refused" \in e.text THEN "connection_refused"
    ELSE "connection_error"

\* test_connection: the error type after an exception of requests.get;
\* "raised" when the handler itself raises
ExceptionErrorType(e, categorizer) ==
    IF IsConnectionFailure(e)
    THEN IF categorizer THEN CategorizeConnectionError(e)
         ELSE FallbackErrorType(e)
    ELSE "unknown_error"

\* no result: None, or the initial values of test_connection's result
NoResult ==
    [success |-> FALSE, status_code |-> 0, error_type |-> "None",
     user_agent |-> 0, raised |-> FALSE]

\* test_connection(url, user_agent, timeout) when requests.get returns a
\* response; status_code 0 stands for None
TestConnectionResponse(status_code, agent) ==
    [success |-> status_code = 200, status_code |-> status_code,
     error_type |-> StatusErrorType(status_code),
     user_agent |-> agent, raised |-> FALSE]

\* test_connection(url, user_agent, timeout) when requests.get raises
TestConnectionException(e, agent, categorizer) ==
    [success |-> FALSE, status_code |-> 0,
     error_type |-> ExceptionErrorType(e, categorizer),
     user_agent |-> agent,
     raised |-> ExceptionErrorType(e, categorizer) = "raised"]

\* the results test_connection can give for a user agent
TestConnection(agent, categorizer) ==
    {TestConnectionResponse(s, agent) : s \in StatusCodes} \cup
    {TestConnectionException(e, agent, categorizer) : e \in RequestExceptions}

DiagnoseIdle ==
    /\ tpc = "off"
    /\ configured_agents = <<>>
    /\ has_categorizer = FALSE
    /\ agent_idx = 1
    /\ agent_results = <<>>
    /\ successful_result = NoResult
    /\ best_result = NoResult

\* USER_AGENTS is get_user_agents(), whose default has one entry, or the
\* fallback list of three
DiagnoseInit ==
    /\ tpc = "loop"
    /\ configured_agents \in {[i \in 1 .. n |-> i] : n \in 1 .. MaxAgents}
    /\ has_categorizer \in BOOLEAN
    /\ agent_idx = 1
    /\ agent_results = <<>>
    /\ successful_result = NoResult
    /\ best_result = NoResult

\* one pass of "for i, user_agent in enumerate(USER_AGENTS, 1)"
TestNextAgent ==
    /\ tpc = "loop"
    /\ agent_idx <= Len(configured_agents)
    /\ \E r \in TestConnection(configured_agents[agent_idx], has_categorizer) :
         IF r.raised
         THEN /\ tpc' = "raised"
              /\ UNCHANGED <<agent_idx, agent_results, successful_result>>
         ELSE /\ agent_results' = Append(agent_results, r)
              /\ IF r.success
                 THEN /\ successful_result' = r
                      /\ tpc' = "after_loop"
                      /\ UNCHANGED agent_idx
                 ELSE /\ agent_idx' = agent_idx + 1
                      /\ tpc' = IF agent_idx + 1 <= Len(configured_agents)
                                THEN "loop" ELSE "after_loop"
                      /\ UNCHANGED successful_result
    /\ UNCHANGED <<notDiagnose, configured_agents, has_categorizer, best_result>>

\* best_result = successful_result if successful_result else all_results[0]
DetermineBestResult ==
    /\ tpc = "after_loop"
    /\ best_result' = IF successful_result # NoResult THEN successful_result
                      ELSE agent_results[1]
    /\ tpc' = "returned"
    /\ UNCHANGED <<notDiagnose, configured_agents, has_categorizer, agent_idx,
                   agent_results, successful_result>>

DiagnoseNext ==
    \/ TestNextAgent
    \/ DetermineBestResult

(***************************************************************************)
(* normalize_name (aspiratio/common/name_match.py).  A name is a sequence  *)
(* of characters.                                                          *)
(***************************************************************************)
\* the characters of the names tried: letters, a digit, the space, '&' and
\* a punctuation mark
Chars == {"A", "b", "7", " ", "&", "."}

Names == SeqsUpTo(Chars, MaxNameLen)

\* str.lower() on one character
LowerChar(c) == IF c = "A" THEN "a" ELSE c

\* name.lower()
Lower(s) == [i \in 1 .. Len(s) |-> LowerChar(s[i])]

RECURSIVE ReplaceAmpersand(_)
\* name.replace('&', 'and')
ReplaceAmpersand(s) ==
    IF s = <<>> THEN <<>>
    ELSE (IF Head(s) = "&" THEN <<"a", "n", "d">> ELSE <<Head(s)>>)
         \o ReplaceAmpersand(Tail(s))

\* the characters that [^a-z0-9 ] does not match
Kept == {"a", "b", "n", "d", "7", " "}

\* re.sub(r'[^a-z0-9 ]', '', name)
RemovePunctuation(s) == SelectSeq(s, LAMBDA c : c \in Kept)

RECURSIVE CollapseWhitespace(_)
\* re.sub(r'\s+', ' ', name)
CollapseWhitespace(s) ==
    IF Len(s) < 2 THEN s
    ELSE IF s[1] = " " /\ s[2] = " " THEN CollapseWhitespace(Tail(s))
    ELSE <<Head(s)>> \o CollapseWhitespace(Tail(s))

RECURSIVE Strip(_)
\* name.strip()
Strip(s) ==
    IF s = <<>> THEN s
    ELSE IF Head(s) = " " THEN Strip(Tail(s))
    ELSE IF s[Len(s)] = " " THEN Strip(SubSeq(s, 1, Len(s) - 1))
    ELSE s

NameIdle ==
    /\ npc = 0
    /\ given_name = <<>>
    /\ name = <<>>

NameInit ==
    /\ npc = 1
    /\ given_name \in Names
    /\ name = given_name

\* name = name.lower()
NormalizeLower ==
    /\ npc = 1
    /\ name' = Lower(name)
    /\ npc' = npc + 1
    /\ UNCHANGED <<notName, given_name>>

\* name = name.replace('&', 'and')
NormalizeReplace ==
    /\ npc = 2
    /\ name' = ReplaceAmpersand(name)
    /\ npc' = npc + 1
    /\ UNCHANGED <<notName, given_name>>

\* name = re.sub(r'[^a-z0-9 ]', '', name)
NormalizeRemove ==
    /\ npc = 3
    /\ name' = RemovePunctuation(name)
    /\ npc' = npc + 1
    /\ UNCHANGED <<notName, given_name>>

\* name = re.sub(r'\s+', ' ', name)
NormalizeCollapse ==
    /\ npc = 4
    /\ name' = CollapseWhitespace(name)
    /\ npc' = npc + 1
    /\ UNCHANGED <<notName, given_name>>

\* return name.strip()
NormalizeStrip ==
    /\ npc = 5
    /\ name' = Strip(name)
    /\ npc' = npc + 1
    /\ UNCHANGED <<notName, given_name>>

NameNext ==
    \/ NormalizeLower
    \/ NormalizeReplace
    \/ NormalizeRemove
    \/ NormalizeCollapse
    \/ NormalizeStrip

(***************************************************************************)
(* download_company_reports (tier1/report_downloader.py).  A report is     *)
(* written with its year and its URL, the URL being the report's place in  *)
(* the list; a file is "none", "old" (it was there before the call) or the *)
(* content that download_pdf wrote.                                        *)
(***************************************************************************)
\* reports = find_annual_reports(ir_url, years, company_name=company_name):
\* sorted by year, latest first; one report per year, or several when the
\* years argument names a year more than once and the direct URL patterns
\* answer for it
ReportLists ==
    {[i \in 1 .. Len(t) |-> [year |-> t[i], url |-> i]] :
        t \in {u \in SeqsUpTo(TargetYears, MaxReports) :
                  \A i, j \in 1 .. Len(u) : i < j => u[i] >= u[j]}}

\* reports_by_year[year]
ReportsByYear(rs, year) == SelectSeq(rs, LAMBDA r : r.year = year)

\* sorted(reports_by_year.keys(), reverse=True)
SortedKeys(rs) ==
    LET asc == SetToAscSeq(YearsOf(rs))
    IN [i \in 1 .. Len(asc) |-> asc[Len(asc) + 1 - i]]

\* os.path.exists(output_path)
Exists(file) == file # "none"

\* download_pdf(url, output_path, year_hint=year): it fails and writes
\* nothing, or it writes a PDF of min_pages pages or more
DownloadPdfOutcomes == {"failed"} \cup PdfContents

\* if result['pages'] > 500
TooManyPages(content) == content = "long"

\* a loop over the candidates that stops before the last one
MoreCandidatesButLast(idx, n) == idx < n - 1

\* for idx, report in enumerate(candidates): a candidate is left after the
\* one at idx (counted from 1)
MoreCandidates(idx, n) == idx < n

\* the entries appended to downloads
DownloadEntry(year, status) == [year |-> year, status |-> status]

\* the dict returned when no report was found
EmptySummary ==
    [found |-> 0, downloaded |-> 0, failed |-> 0, downloads |-> <<>>]

\* the dict returned after the loop over the years
FullSummary(rs, ds) ==
    [found |-> Len(rs),
     downloaded |-> CountStatus(ds, "success"),
     skipped |-> CountStatus(ds, "skipped"),
     failed |-> CountStatus(ds, "failed"),
     downloads |-> ds]

\* nothing returned yet
NoSummary == [found |-> -1, downloads |-> <<>>]

CompanyIdle ==
    /\ rpc = "off"
    /\ reports_found = <<>>
    /\ company_dir = [y \in TargetYears |-> "none"]
    /\ years_left = <<>>
    /\ candidate_idx = 0
    /\ company_downloads = <<>>
    /\ pdf_calls = <<>>
    /\ dir_before = [y \in TargetYears |-> "none"]
    /\ company_summary = NoSummary

\* the call download_company_reports(cid, company_name, ir_url, years) with
\* some of the target files on disk already
CompanyInit ==
    /\ rpc = "find"
    /\ reports_found = <<>>
    /\ company_dir \in [TargetYears -> {"none", "old"}]
    /\ years_left = <<>>
    /\ candidate_idx = 0
    /\ company_downloads = <<>>
    /\ pdf_calls = <<>>
    /\ dir_before = company_dir
    /\ company_summary = NoSummary

\* find_annual_reports returns its list or raises DownloadError; with no
\* report the call returns at once, else the reports are grouped by year
CompanyFind ==
    /\ rpc = "find"
    /\ \/ /\ rpc' = "raised"
          /\ UNCHANGED <<reports_found, years_left, company_summary>>
       \/ \E rs \in ReportLists :
            /\ reports_found' = rs
            /\ IF rs = <<>>
               THEN /\ company_summary' = EmptySummary
                    /\ years_left' = <<>>
                    /\ rpc' = "returned"
               ELSE /\ years_left' = SortedKeys(rs)
                    /\ rpc' = "year"
                    /\ UNCHANGED company_summary
    /\ UNCHANGED <<notCompany, company_dir, candidate_idx, company_downloads,
                   pdf_calls, dir_before>>

\* one turn of the loop over the years up to the loop over the candidates:
\* a year whose file exists is recorded as skipped; after the last year the
\* summary is returned
CompanyYear ==
    /\ rpc = "year"
    /\ IF years_left = <<>>
       THEN /\ company_summary' = FullSummary(reports_found, company_downloads)
            /\ rpc' = "returned"
            /\ UNCHANGED <<years_left, candidate_idx, company_downloads>>
       ELSE LET year == Head(years_left)
            IN IF Exists(company_dir[year])
               THEN /\ company_downloads' =
                         Append(company_downloads, DownloadEntry(year, "skipped"))
                    /\ years_left' = Tail(years_left)
                    /\ UNCHANGED <<rpc, candidate_idx, company_summary>>
               ELSE /\ rpc' = "candidate"
                    /\ candidate_idx' = 1
                    /\ UNCHANGED <<years_left, company_downloads, company_summary>>
    /\ UNCHANGED <<notCompany, reports_found, company_dir, pdf_calls, dir_before>>

\* one turn of the loop over the candidates of a year: download_pdf is
\* called; a PDF of at most 500 pages is recorded as success and ends the
\* loop, a longer one is removed again; when no candidate is left the year
\* is recorded as failed
CompanyCandidate ==
    /\ rpc = "candidate"
    /\ LET year == Head(years_left)
           candidates == ReportsByYear(reports_found, year)
           report == candidates[candidate_idx]
       IN /\ pdf_calls' = Append(pdf_calls, <<year, report.url>>)
          /\ \E dl \in DownloadPdfOutcomes :
               IF dl # "failed" /\ ~TooManyPages(dl)
               THEN /\ company_dir' = [company_dir EXCEPT ![year] = dl]
                    /\ company_downloads' =
                         Append(company_downloads, DownloadEntry(year, "success"))
                    /\ years_left' = Tail(years_left)
                    /\ candidate_idx' = 0
                    /\ rpc' = "year"
               ELSE /\ company_dir' = company_dir
                    /\ IF MoreCandidates(candidate_idx, Len(candidates))
                       THEN /\ candidate_idx' = candidate_idx + 1
                            /\ UNCHANGED <<rpc, years_left, company_downloads>>
                       ELSE /\ company_downloads' =
                                 Append(company_downloads,
                                        DownloadEntry(year, "failed"))
                            /\ years_left' = Tail(years_left)
                            /\ candidate_idx' = 0
                            /\ rpc' = "year"
    /\ UNCHANGED <<notCompany, reports_found, dir_before, company_summary>>

CompanyNext ==
    \/ CompanyFind
    \/ CompanyYear
    \/ CompanyCandidate

(***************************************************************************)
(* The specifications.                                                     *)
(***************************************************************************)
FindIdle ==
    /\ pc = "idle"
    /\ level = 0
    /\ max_depth = 0
    /\ max_failures = 1
    /\ enable_failsafe = FALSE
    /\ company_name = FALSE
    /\ years = {}
    /\ results = <<>>
    /\ visited = {}
    /\ consecutive_failures = 0
    /\ stack = <<>>
    /\ cur = NoPage
    /\ exc = FALSE
    /\ commonIdx = 1
    /\ afterRaise = FALSE
    /\ outerYears = {}
    /\ outcome = "idle"
    /\ attemptedFor = [y \in TargetYears |-> {}]
    /\ raisedIn = "none"
    /\ commonTrips = 0

InitFind == FindInit /\ DownloadIdle /\ PipeIdle /\ CoverageIdle /\ ValidateIdle /\ CategorizeIdle /\ DiagnoseIdle /\ NameIdle /\ CompanyIdle
SpecFind == InitFind /\ [][FindNext]_vars

InitDownload == DownloadInit /\ FindIdle /\ PipeIdle /\ CoverageIdle /\ ValidateIdle /\ CategorizeIdle /\ DiagnoseIdle /\ NameIdle /\ CompanyIdle
SpecDownload == InitDownload /\ [][DownloadNext]_vars

InitPipe == PipeInit /\ FindIdle /\ DownloadIdle /\ CoverageIdle /\ ValidateIdle /\ CategorizeIdle /\ DiagnoseIdle /\ NameIdle /\ CompanyIdle
SpecPipe == InitPipe /\ [][PipeNext]_vars

InitCoverage == CoverageInit /\ FindIdle /\ DownloadIdle /\ PipeIdle /\ ValidateIdle /\ CategorizeIdle /\ DiagnoseIdle /\ NameIdle /\ CompanyIdle
SpecCoverage == InitCoverage /\ [][CoverageNext]_vars

InitValidate == ValidateInit /\ FindIdle /\ DownloadIdle /\ PipeIdle /\ CoverageIdle /\ CategorizeIdle /\ DiagnoseIdle /\ NameIdle /\ CompanyIdle
SpecValidate == InitValidate /\ [][ValidateNext]_vars

InitCategorize == CategorizeInit /\ FindIdle /\ DownloadIdle /\ PipeIdle /\ CoverageIdle /\ ValidateIdle /\ DiagnoseIdle /\ NameIdle /\ CompanyIdle
SpecCategorize == InitCategorize /\ [][CategorizeNext]_vars

InitDiagnose == DiagnoseInit /\ FindIdle /\ DownloadIdle /\ PipeIdle /\ CoverageIdle /\ ValidateIdle /\ CategorizeIdle /\ NameIdle /\ CompanyIdle
SpecDiagnose == InitDiagnose /\ [][DiagnoseNext]_vars

InitName == NameInit /\ FindIdle /\ DownloadIdle /\ PipeIdle /\ CoverageIdle /\ ValidateIdle /\ CategorizeIdle /\ DiagnoseIdle /\ CompanyIdle
SpecName == InitName /\ [][NameNext]_vars

\* find_annual_reports runs to its end: a step that can be taken is taken
SpecFindLive == InitFind /\ [][FindNext]_vars /\ WF_vars(FindNext)

InitCompany == CompanyInit /\ FindIdle /\ DownloadIdle /\ PipeIdle /\ CoverageIdle /\ ValidateIdle /\ CategorizeIdle /\ DiagnoseIdle /\ NameIdle
SpecCompany == InitCompany /\ [][CompanyNext]_vars

Init == InitFind
Next == FindNext
Spec == Init /\ [][Next]_vars

(***************************************************************************)
(* Properties of find_annual_reports.                                      *)
(***************************************************************************)
\* a request is issued in this step (every fetched URL enters visited)
Fetched == visited' # visited /\ visited \subseteq visited'

\* C1 as stated: the call raises only after every stage has been tried.
C1_RaisesOnlyWhenExhausted == outcome = "raised" => tried = Stages

\* C1 amended: the call raises only when the circuit breaker trips in the
\* crawl that starts at the IR page, and then at once, the later stages
\* untried; a breaker trip while probing the common paths is not fatal.
C1_RaisesOnlyFromIrCrawl ==
    outcome = "raised" =>
        /\ raisedIn = "crawl"
        /\ tried = {"direct", "crawl"}
        /\ commonTrips = 0

C1_Witness ==
    /\ outcome = "raised" /\ raisedIn = "crawl"
    /\ consecutive_failures = max_failures /\ IrUrl \in visited

\* C2: every failed page adds one to the counter, every 200 resets it to 0,
\* reaching max_failures raises DownloadError at once, no page is fetched
\* while the error propagates or with the counter at max_failures, and the
\* counter never exceeds max_failures.
C2_BreakerStep ==
    /\ Fetched =>
          /\ ~exc
          /\ consecutive_failures < max_failures
          /\ IF cur' # NoPage
             THEN consecutive_failures' = 0
             ELSE consecutive_failures' = consecutive_failures + 1
    /\ (cur # NoPage /\ consecutive_failures' # consecutive_failures) =>
          consecutive_failures' = consecutive_failures + 1
    /\ (consecutive_failures' > consecutive_failures
          /\ consecutive_failures' >= max_failures) => exc'

C2_CircuitBreaker ==
    /\ [](consecutive_failures \in 0 .. max_failures)
    /\ [](exc => consecutive_failures = max_failures)
    /\ [][C2_BreakerStep]_vars

C2_Witness ==
    /\ exc /\ max_failures = 2 /\ consecutive_failures = 2
    /\ Cardinality(visited) >= 2

\* C5: no page is fetched at a depth greater than max_depth, and links are
\* queued for following only from pages at depth < max_depth.
C5_DepthStep == Fetched => Top.depth + 1 <= max_depth

C5_DepthBounded ==
    /\ [](cur # NoPage => cur.depth <= max_depth)
    /\ [](\A i \in 1 .. Len(stack) :
            (stack[i].depth >= 0 /\ stack[i].queue # <<>>) => stack[i].depth < max_depth)
    /\ [][C5_DepthStep]_vars

C5_Witness == cur # NoPage /\ cur.depth = max_depth /\ max_depth = 1

\* a request of search_page is issued in this step, for the URL at the head
\* of the running invocation's queue
Requested ==
    /\ Running /\ ~exc /\ cur = NoPage /\ stack # <<>>
    /\ \/ cur' # NoPage
       \/ consecutive_failures' = consecutive_failures + 1

\* C19: find_annual_reports always terminates; within one call a URL is
\* fetched at most once, at most 5 links are followed from a page and only
\* from pages above max_depth, and the failsafe starts the nested call at
\* most once, the nested call running with the failsafe disabled.
C19_FetchStep == Requested => Head(Top.queue) \notin visited

C19_NestedStep ==
    /\ level' # level /\ level = 0 =>
          /\ pc = "failsafe" /\ enable_failsafe /\ level' = 1 /\ pc' = "direct"
    /\ level = 1 => ~FailsafeEnabled
    /\ (level = 0 /\ pc \in {"mfn", "done"}) =>
          (level' = 0 /\ pc' \in {"mfn", "done"})

C19_Terminates ==
    /\ <>(outcome # "running")
    /\ [][C19_FetchStep]_vars
    /\ [][C19_NestedStep]_vars
    /\ [](level \in {0, 1})
    /\ [](\A i \in 1 .. Len(stack) :
            /\ Len(stack[i].queue) <= FollowLimit
            /\ stack[i].depth <= max_depth)
    /\ [](\A n \in 0 .. FollowLimit + 2, d \in 0 .. MaxDepthArg :
            Len(PagesToVisit([i \in 1 .. n |-> IrUrl], d, MaxDepthArg + 1))
                = Min(n, FollowLimit))

C19_Witness ==
    /\ outcome = "returned" /\ outerYears # {}
    /\ Cardinality(visited) >= 2 /\ max_depth = 1

C21_CaughtStep ==
    (exc /\ pc = "common") =>
        /\ ~exc' /\ consecutive_failures' = 0
        /\ outcome' = "running" /\ pc' = "common"
        /\ commonIdx' = commonIdx /\ level' = level

\* the turn of the loop after a caught trip: the next common path is
\* probed (unless its URL was visited already), whatever the results are
C21_ProbeStep ==
    (/\ pc = "common" /\ afterRaise /\ ~exc /\ stack = <<>>
     /\ commonIdx <= NumCommon) =>
        /\ pc' = "common" /\ commonIdx' = commonIdx + 1
        /\ CommonPaths[commonIdx] \notin visited =>
              stack' = RootCall(CommonPaths[commonIdx])

\* C21 as stated: a circuit-breaker trip during common-path probing does
\* not end the search: the DownloadError is caught, consecutive_failures is
\* reset to 0, the remaining common paths are still probed, and the call
\* that caught it still reaches its failsafe stage and its MFN stage.
C21_TripDoesNotEndSearch ==
    /\ [][C21_CaughtStep]_vars
    /\ [][C21_ProbeStep]_vars
    /\ \A l \in {0, 1} :
         /\ (exc /\ pc = "common" /\ level = l) ~> (pc = "failsafe" /\ level = l)
         /\ (exc /\ pc = "common" /\ level = l) ~> (pc = "mfn" /\ level = l)

\* the fallback stages (common paths, main-site failsafe, MFN) attempted
\* for the year y by the caller's call
FallbacksFor(af, y) == af[y] \cap {"common", "failsafe", "mfn"}

\* C23: the common-path, failsafe and MFN stages are started only while
\* the results list is empty: once a report was found for some year, no
\* fallback stage is attempted for the years still unfound, in the caller's
\* call and in the nested call.
C23_FallbackStep ==
    /\ (pc # "common" /\ pc' = "common") => results = <<>>
    /\ (level = 0 /\ level' = 1) => results = <<>>
    /\ results # <<>> =>
          \A y \in TargetYears :
              FallbacksFor(attemptedFor', y) = FallbacksFor(attemptedFor, y)

C9_MfnTriedBeforeReturn ==
    (outcome = "returned" /\ results = <<>> /\ enable_failsafe /\ company_name)
        => "mfn" \in tried

\* C8 as stated: for every year the stages are attempted in the order direct
\* URL patterns, IR-page crawl, MFN, Playwright, a later stage only after
\* every earlier one was attempted for the year and gave no report for it.
C8_StagesInOrder ==
    \A y \in TargetYears :
        LET a == attemptedFor[y]
            found == {i \in 1 .. Len(results) : results[i].year = y}
        IN /\ "crawl" \in a => "direct" \in a
           /\ "mfn" \in a =>
                 /\ {"direct", "crawl"} \subseteq a
                 /\ \A i \in found : results[i].source_page = MfnSource
           /\ "playwright" \in a =>
                 /\ {"direct", "crawl", "mfn"} \subseteq a
                 /\ found = {}

C7_FewPagesStep ==
    (dpc = "validate" /\ temp_file.kind = "pdf" /\ temp_file.pages < min_pages) =>
        /\ dpc' = "returned"
        /\ ~result'.success
        /\ output_file' = output_file
        /\ temp_file' = NoFile
        /\ requests' = requests

C7_SuccessMeansPersisted ==
    /\ [](result.success =>
            /\ dpc = "returned"
            /\ output_file.kind = "pdf"
            /\ output_file.pages >= min_pages
            /\ output_file.pages = result.pages
            /\ temp_file = NoFile)
    /\ [](output_file.kind = "pdf" => output_file.pages >= min_pages)
    /\ [][C7_FewPagesStep]_vars

C7_Witness ==
    /\ result.success /\ output_file = Pdf(min_pages) /\ failures = 1
    /\ min_pages = 2

\* C13 as stated: when download_pdf retries after a failed attempt, the
\* retry is sent with a different user agent than the attempt that failed.
C13_RetryRotatesUserAgent ==
    [][(dpc = "request" /\ attempt > 0 /\ requests' = requests + 1)
          => user_agent' # user_agent]_vars

(***************************************************************************)
(* Properties of the files and of the coverage table.                      *)
(***************************************************************************)
\* C3 as stated: a company's directory never holds two PDF files that
\* scan_downloaded_reports attributes to the same (cid, year).
C3_OneFilePerPair ==
    \A p \in Pairs :
        Cardinality({r \in ScanDownloadedReports(files) : r[1] = p}) <= 1

\* C4 as stated: in every table written by validate_reports or
\* redownload_failed a row has Priority 'Complete ✓' exactly when its
\* Validation_Status is 'Valid'.
C4_CompleteIffValid ==
    written_by \in {"validate_reports", "redownload_failed"} =>
        \A p \in Pairs :
            table[p].Priority = "Complete" <=> table[p].Validation_Status = "Valid"

\* C22 as stated: completion is stable: once a row has Priority
\* 'Complete ✓' with Validation_Status 'Valid', a later run of
\* validate_reports skips that report and leaves the row's Priority (and
\* its Validation_Status) as it is.
C22_CompletionStable ==
    [][\A p \in Pairs :
         (/\ script = "idle" /\ script' = "idle"
          /\ table[p].Priority = "Complete"
          /\ table[p].Validation_Status = "Valid")
         => /\ table'[p].Priority = "Complete"
            /\ table'[p].Validation_Status = "Valid"]_vars

\* C10: after update_coverage_table every company of the download summary
\* has exactly one row for each of the six target years, and no
\* (Company_Identifier, FiscalYear) pair is in two rows.
C10_OneRowPerPair ==
    cpc = "updated" =>
        LET rows == 1 .. Len(coverage_records)
            RowsOf(cid, year) ==
                {k \in rows : /\ coverage_records[k].Company_Identifier = cid
                              /\ coverage_records[k].FiscalYear = year}
        IN /\ Len(target_years) = 6
           /\ \A i \in 1 .. Len(all_results), j \in 1 .. Len(target_years) :
                 Cardinality(RowsOf(all_results[i].cid, target_years[j])) = 1
           /\ \A k, l \in rows :
                 (/\ coverage_records[k].Company_Identifier
                        = coverage_records[l].Company_Identifier
                  /\ coverage_records[k].FiscalYear = coverage_records[l].FiscalYear)
                 => k = l

C10_Witness ==
    /\ cpc = "updated" /\ Len(all_results) = 2 /\ Len(coverage_records) = 12
    /\ \E k \in 1 .. Len(coverage_records) :
         coverage_records[k].CaptureStatus = "Success"
    /\ \E k \in 1 .. Len(coverage_records) :
         coverage_records[k].CaptureStatus = "Error"

\* C11: an exception raised while one company is processed never ends the
\* batch: when the summary is written every selected company has
\* contributed exactly one entry, in turn, and the entry of a company that
\* raised carries found = 0, downloaded = 0, failed = 0 and the error.
C11_BatchNeverAborted ==
    /\ cpc # "aborted"
    /\ Len(all_results) = next_company - 1
    /\ \A i \in 1 .. Len(all_results) :
         /\ all_results[i].cid = valid_df[i]
         /\ all_results[i].error # "" =>
               /\ all_results[i].found = 0
               /\ all_results[i].downloaded = 0
               /\ all_results[i].failed = 0
    /\ cpc \in {"summary_written", "updated"} => Len(all_results) = Len(valid_df)

C11_Witness ==
    /\ cpc = "summary_written" /\ Len(all_results) = 2
    /\ all_results[1].error = "Exception"
    /\ all_results[2].error = "" /\ all_results[2].downloaded = 1

(***************************************************************************)
(* Properties of validate_pdf.                                             *)
(***************************************************************************)
\* C12: validate_pdf reports valid exactly when confidence >= 60, the
\* company and the year were found and the page count is in
\* MIN_PAGES..MAX_PAGES; the confidence lies in 0..100, it is the page
\* score (0..40, only for a page count in range) plus 30 and 30, and it
\* reaches 60 whenever the other three conditions hold.
C12_ValidIffAllChecks ==
    vpc = "returned" =>
        LET others == /\ validation.company_found
                      /\ validation.year_found
                      /\ PagesInRange(validation.pages)
            page_part == validation.confidence
                           - (IF validation.company_found THEN 300 ELSE 0)
                           - (IF validation.year_found THEN 300 ELSE 0)
        IN /\ validation.valid <=> (validation.confidence >= 600 /\ others)
           /\ validation.confidence \in 0 .. 1000
           /\ page_part \in 0 .. 400
           /\ ~PagesInRange(validation.pages) => page_part = 0
           /\ others => validation.confidence >= 600

C12_Witness ==
    /\ vpc = "returned" /\ validation.valid
    /\ validation.pages = MAX_PAGES /\ validation.confidence = 1000

\* C14 as stated: every change redownload_failed makes to a processed row
\* has been written to the coverage file by the time the script ends, so
\* the table on disk equals the table in memory at exit.
C14_TableSavedAtExit ==
    [][(script = "redownload_failed" /\ script' = "idle") => table' = df']_vars

(***************************************************************************)
(* Properties of download_company_reports.                                 *)
(***************************************************************************)
\* C24: download_company_reports records exactly one outcome per distinct
\* year of the reports found, with status success, skipped or failed, so
\* that downloaded + skipped + failed is the number of distinct years; a
\* year is skipped exactly when its target file exists already, and then
\* download_pdf is not called for it and the file stays as it was; a year
\* is failed only after download_pdf was called for each of its candidates.
C24_OneOutcomePerYear ==
    LET ds == company_downloads
        calls(y) == {pdf_calls[k][2] : k \in {n \in 1 .. Len(pdf_calls) :
                                                pdf_calls[n][1] = y}}
        urls(y) == {reports_found[k].url : k \in {n \in 1 .. Len(reports_found) :
                                                    reports_found[n].year = y}}
    IN /\ \A i \in 1 .. Len(ds) :
            /\ ds[i].year \in YearsOf(reports_found)
            /\ ds[i].status \in {"success", "skipped", "failed"}
            /\ \A j \in 1 .. Len(ds) : ds[j].year = ds[i].year => j = i
            /\ ds[i].status = "skipped" <=> dir_before[ds[i].year] # "none"
            /\ ds[i].status = "skipped" =>
                  /\ calls(ds[i].year) = {}
                  /\ company_dir[ds[i].year] = dir_before[ds[i].year]
            /\ ds[i].status = "failed" => calls(ds[i].year) = urls(ds[i].year)
       /\ rpc = "returned" =>
            LET r == company_summary
                skipped == IF "skipped" \in DOMAIN r THEN r.skipped ELSE 0
            IN /\ r.downloads = ds
               /\ YearsOf(ds) = YearsOf(reports_found)
               /\ r.downloaded = CountStatus(ds, "success")
               /\ skipped = CountStatus(ds, "skipped")
               /\ r.failed = CountStatus(ds, "failed")
               /\ r.downloaded + skipped + r.failed
                     = Cardinality(YearsOf(reports_found))

C24_Witness ==
    /\ rpc = "returned" /\ Len(reports_found) = 3
    /\ company_downloads = <<DownloadEntry(2024, "skipped"),
                             DownloadEntry(2023, "failed")>>
    /\ Len(pdf_calls) = 2

(***************************************************************************)
(* Properties of the connection diagnostics.                               *)
(***************************************************************************)
\* C15 as stated: categorize_connection_error returns, for every
\* exception, one error type of the set documented in its docstring.
C15_DocumentedErrorType ==
    epc # "called" /\ epc # "off" =>
        /\ epc = "returned"
        /\ error_type \in DocumentedErrorTypes

\* C16 as stated: the configured user agents are tried one at a time in
\* list order and the loop stops at the first success; when no attempt
\* succeeds there is one attempt per configured user agent, more than one
\* in total; best_result is the successful attempt if there is one,
\* otherwise the first attempt.
C16_RotatesThroughAgents ==
    tpc = "returned" =>
        LET n == Len(agent_results)
            succeeded == {k \in 1 .. n : agent_results[k].success}
        IN /\ n <= Len(configured_agents)
           /\ \A k \in 1 .. n :
                agent_results[k].user_agent = configured_agents[k]
           /\ succeeded \subseteq {n}
           /\ succeeded = {} => n = Len(configured_agents) /\ n > 1
           /\ best_result = IF succeeded # {} THEN agent_results[n]
                            ELSE agent_results[1]

\* C17: test_connection never raises and returns a categorized outcome:
\* success (with error_type None) exactly for a response with status 200,
\* and success False with an error type for every other outcome.
C17_CategorizedOutcome ==
    /\ tpc # "raised"
    /\ \A k \in 1 .. Len(agent_results) :
         LET r == agent_results[k]
         IN /\ r.success <=> r.status_code = 200
            /\ r.success => r.error_type = "None"
            /\ ~r.success => r.error_type # "None"

C17_Witness ==
    /\ tpc = "returned" /\ Len(agent_results) = 3
    /\ agent_results[1].status_code = 500
    /\ agent_results[2].error_type = "unknown_error"
    /\ agent_results[3].success

(***************************************************************************)
(* Properties of normalize_name.                                           *)
(***************************************************************************)
\* C18 as stated: for a name made of letters, digits, single spaces
\* between them and '&', normalize_name returns the name in lower case and
\* otherwise unchanged, as normalize_name('Hennes & Mauritz B') =
\* 'hennes & mauritz b'.
C18_OnlyLowerCased ==
    (/\ npc = 6
     /\ \A i \in 1 .. Len(given_name) : given_name[i] # "."
     /\ given_name = Strip(CollapseWhitespace(given_name)))
    => name = Lower(given_name)

====
